---- MODULE Spec2Model ----
\* A model of carbonserver-flamegraphs (src/main.go): the flame-graph tree
\* pipeline (constructTree, trimNodes, convertToClickhouse, reconstructTree),
\* the query handler (getHandler), the collection of a cluster's listings
\* (getMetrics, getList), the steps of a cluster's unit (parseTree), the write
\* of a snapshot (sendToClickhouse) and the scheduler (processData).
EXTENDS Integers, Sequences, FiniteSets, TLC

\* ---------------------------------------------------------------------------
\* Bounds of the model
\* ---------------------------------------------------------------------------
\* A metric name has at most MaxSegs dot-separated segments.
MaxSegs == 2
\* A cluster's deduplicated listing has at most MaxNames names.
MaxNames == 2
\* A cluster has at most MaxHosts hosts.
MaxHosts == 2
\* The scheduler is followed through MaxCycles cycles.
MaxCycles == 2
\* A configuration has at most MaxClusters clusters, or the three of ThreeClusters.
MaxClusters == 2

\* ---------------------------------------------------------------------------
\* Program constants
\* ---------------------------------------------------------------------------
rootElementId == 1
\* getList gives up once tries exceeds MaxTries.
MaxTries == 3

\* Strings are sequences of one-character strings, so that Split and the
\* concatenation of the lookup key are computed, not assumed.
Dot == "."
EmptyStr == << >>
Letters == {"a", "b"}
\* The segments a bounded name is made of: empty, or one letter.
Segments == {EmptyStr} \cup {<<l>> : l \in Letters}

RECURSIVE Join(_)
Join(segs) ==
    IF Len(segs) = 0 THEN EmptyStr
    ELSE IF Len(segs) = 1 THEN segs[1]
    ELSE segs[1] \o <<Dot>> \o Join(Tail(segs))

\* All names of 1..MaxSegs segments.
BoundedNames ==
    UNION {{Join(s) : s \in [1..k -> Segments]} : k \in 1..MaxSegs}

\* The names of the worked example: a.b.c, a.b.d, a.e
ExampleNames ==
    { <<"a", ".", "b", ".", "c">>, <<"a", ".", "b", ".", "d">>, <<"a", ".", "e">> }

Range(f) == {f[x] : x \in DOMAIN f}

\* The deduplicated listings a cluster's collection can yield.
\* A listing with a subtree below a node that trimming removes: b.a.a, a.a, a.b
DeepNames ==
    { <<"b", ".", "a", ".", "a">>, <<"a", ".", "a">>, <<"a", ".", "b">> }

\* A listing with empty segments inside and in front: a..b.a, .a.b, a.b.b
GappyNames ==
    { <<"a", ".", ".", "b", ".", "a">>, <<".", "a", ".", "b">>, <<"a", ".", "b", ".", "b">> }

\* The deduplicated listings a cluster's collection can yield.
NameSets ==
    {{}} \cup {Range(f) : f \in [1..MaxNames -> BoundedNames]}
         \cup {ExampleNames, DeepNames, GappyNames}

\* All orderings of a finite set as sequences without repetition.
Orderings(S) ==
    {f \in [1..Cardinality(S) -> S] : \A i, j \in 1..Cardinality(S) : f[i] = f[j] => i = j}

\* ---------------------------------------------------------------------------
\* strings.Split(metric, ".")
\* ---------------------------------------------------------------------------
RECURSIVE SplitAcc(_, _, _, _)
SplitAcc(s, i, cur, acc) ==
    IF i > Len(s) THEN Append(acc, cur)
    ELSE IF s[i] = Dot THEN SplitAcc(s, i + 1, EmptyStr, Append(acc, cur))
    ELSE SplitAcc(s, i + 1, Append(cur, s[i]), acc)

Split(s) == SplitAcc(s, 1, EmptyStr, << >>)

\* Variant: the last segment is visited too.
KeepLast(parts) == parts

\* parts[:len(parts)-1]
DropLast(parts) == SubSeq(parts, 1, Len(parts) - 1)

\* ---------------------------------------------------------------------------
\* flameGraphNode: the heap is a sequence of nodes, a pointer is an index into
\* it, 0 is nil.
\* ---------------------------------------------------------------------------
ClusterName == "c1"
RootName == <<"a", "l", "l">>

flameGraphNode(id, cluster, name, value, total, parent, childrenIds) ==
    [id |-> id, cluster |-> cluster, Name |-> name, Value |-> value,
     Total |-> total, Children |-> << >>, childrenIds |-> childrenIds,
     parent |-> parent]

\* The root parseTree allocates for a listing of n names.
RootNode(n) == flameGraphNode(rootElementId, ClusterName, RootName, n, n, 0, << >>)

\* ---------------------------------------------------------------------------
\* constructTree
\* ---------------------------------------------------------------------------
\* Variant: the lookup is keyed by the segment alone.
PartKey(seenSoFar, part) == <<Dot>> \o part

\* The lookup key of the next depth: seenSoFar + "." + part
NextKey(seenSoFar, part) == seenSoFar \o <<Dot>> \o part

\* The parent of a new node: the node of the previous key, or the root.
ParentOf(st, seenSoFarPrev, root) ==
    IF seenSoFarPrev # EmptyStr THEN st.seen[seenSoFarPrev] ELSE root

\* st = [heap, seen, cnt]; one iteration of the inner loop for a non-empty part.
VisitPart(st, root, total, part, seenSoFarPrev, seenSoFar) ==
    IF seenSoFar \in DOMAIN st.seen
    THEN [st EXCEPT !.heap[st.seen[seenSoFar]].Value = @ + 1]
    ELSE LET parent == ParentOf(st, seenSoFarPrev, root)
             addr == Len(st.heap) + 1
             data == flameGraphNode(st.cnt, st.heap[parent].cluster, part, 1,
                                    total, parent, << >>)
             heap1 == Append(st.heap, data)
         IN [heap |-> [heap1 EXCEPT ![parent].Children = Append(@, addr),
                                    ![parent].childrenIds = Append(@, st.cnt)],
             seen |-> st.seen @@ (seenSoFar :> addr),
             cnt |-> st.cnt + 1]

\* Variant: no part is skipped.
SkipNone(part) == FALSE

\* Whether the inner loop skips a part.
SkipPart(part) == part = EmptyStr

RECURSIVE VisitParts(_, _, _, _, _, _)
VisitParts(st, root, total, parts, i, seenSoFar) ==
    IF i > Len(parts) THEN st
    ELSE IF SkipPart(parts[i])
         THEN VisitParts(st, root, total, parts, i + 1, seenSoFar)
         ELSE LET key == NextKey(seenSoFar, parts[i])
              IN VisitParts(VisitPart(st, root, total, parts[i], seenSoFar, key),
                            root, total, parts, i + 1, key)

RECURSIVE VisitMetrics(_, _, _, _, _)
VisitMetrics(st, root, total, metrics, j) ==
    IF j > Len(metrics) THEN st
    ELSE VisitMetrics(
             VisitParts(st, root, total, DropLast(Split(metrics[j])), 1, EmptyStr),
             root, total, metrics, j + 1)

\* constructTree(root, metrics) on a heap holding the root: the heap afterwards.
constructTree(heap, root, metrics) ==
    VisitMetrics([heap |-> heap, seen |-> << >>, cnt |-> rootElementId + 1],
                 root, Len(metrics), metrics, 1).heap

\* ---------------------------------------------------------------------------
\* trimNodes
\* ---------------------------------------------------------------------------
\* Variant: a child at the limit is retained.
RetainedAtLimit(n, limit) == n.Value >= limit

\* The child n is retained when its value exceeds the limit.
Retained(n, limit) == n.Value > limit

RECURSIVE trimNodes(_, _, _)
RECURSIVE trimLoop(_, _, _, _, _)
trimLoop(heap, node, limit, i, newChildren) ==
    IF i > Len(heap[node].Children)
    THEN [heap EXCEPT ![node].Children = newChildren]
    ELSE LET n == heap[node].Children[i]
         IN IF Retained(heap[n], limit)
            THEN trimLoop(trimNodes(heap, n, limit), node, limit, i + 1,
                          Append(newChildren, n))
            ELSE trimLoop(heap, node, limit, i + 1, newChildren)

trimNodes(heap, node, limit) == trimLoop(heap, node, limit, 1, << >>)

\* ---------------------------------------------------------------------------
\* clickhouseField and convertToClickhouse
\* ---------------------------------------------------------------------------
clickhouseField(n, timestamp) ==
    [Timestamp |-> timestamp, GraphType |-> "", Cluster |-> n.cluster,
     Name |-> n.Name, Total |-> n.Total, Value |-> n.Value, Id |-> n.id,
     ChildrenIds |-> n.childrenIds]

\* The zero value of clickhouseField, which a map lookup of an absent id yields.
ZeroField ==
    [Timestamp |-> 0, GraphType |-> "", Cluster |-> "", Name |-> EmptyStr,
     Total |-> 0, Value |-> 0, Id |-> 0, ChildrenIds |-> << >>]

RECURSIVE convertToClickhouse(_, _, _)
RECURSIVE convertChildren(_, _, _, _)
\* The loop over node.Children: the child's row, then the child's own rows.
convertChildren(heap, node, timestamp, i) ==
    IF i > Len(heap[node].Children) THEN << >>
    ELSE LET n == heap[node].Children[i]
         IN <<clickhouseField(heap[n], timestamp)>>
            \o convertToClickhouse(heap, n, timestamp)
            \o convertChildren(heap, node, timestamp, i + 1)

convertToClickhouse(heap, node, timestamp) ==
    <<clickhouseField(heap[node], timestamp)>>
    \o convertChildren(heap, node, timestamp, 1)

\* The rows the INSERT statement writes: graph_type is set at the statement.
InsertedRows(ch) == [i \in 1..Len(ch) |-> [ch[i] EXCEPT !.GraphType = "graphite_metrics"]]

\* ---------------------------------------------------------------------------
\* sendToClickhouse
\* ---------------------------------------------------------------------------
\* One call meets no fault, or its first fault at sql.Open, Ping, CREATE TABLE,
\* Begin, Prepare, a stmt.Exec or Commit.
WriteFaults == {"none", "open", "ping", "create", "begin", "prepare", "exec", "commit"}

\* The faults reported with logger.Fatal, which logs and exits the process.
WriteFatal(fault) == fault \in {"open", "create"}

\* The statements stmt.Exec ran in the transaction before the call returned:
\* none when the fault precedes the loop, those before statement k when
\* statement k fails, else all.
Executed(rows, fault, k) ==
    CASE fault \in {"open", "ping", "create", "begin", "prepare"} -> << >>
      [] fault = "exec" -> SubSeq(rows, 1, k - 1)
      [] OTHER -> rows

\* Variant: the statements executed before the return stay in the table.
KeptOnReturn(tbl, executed) == tbl \o executed

\* The table after a return without a successful tx.Commit(): the deferred
\* connect.Close() drops the open transaction.
Discarded(tbl, executed) == tbl

\* The table after tx.Commit() succeeded.
Committed(tbl, executed) == tbl \o executed

\* sendToClickhouse(node) at time t under a fault: [alive, table, tx]
sendToClickhouse(tbl, heap, node, t, fault, k) ==
    LET ch == convertToClickhouse(heap, node, t)
        executed == Executed(InsertedRows(ch), fault, k)
    IN [alive |-> ~WriteFatal(fault),
        table |-> IF fault = "none" THEN Committed(tbl, executed)
                  ELSE Discarded(tbl, executed),
        tx |-> [fault |-> fault, executed |-> Len(executed), committed |-> fault = "none"]]

\* ---------------------------------------------------------------------------
\* reconstructTree and the read path of getHandler
\* ---------------------------------------------------------------------------
\* data[i] of a Go map: the zero value when the key is absent.
Lookup(data, i) == IF i \in DOMAIN data THEN data[i] ELSE ZeroField

\* The node reconstructTree and getHandler make of a row.
NodeOfRow(d, parent) ==
    flameGraphNode(d.Id, d.Cluster, d.Name, d.Value, d.Total, parent, d.ChildrenIds)

\* Whether reconstructTree attaches the row d under the floor minValue.
Attached(d, minValue) == d.Value > minValue

RECURSIVE reconstructLoop(_, _, _, _, _)
reconstructLoop(data, heap, root, minValue, k) ==
    IF k > Len(heap[root].childrenIds) THEN heap
    ELSE LET d == Lookup(data, heap[root].childrenIds[k])
         IN IF Attached(d, minValue)
            THEN LET heap1 == Append(heap, NodeOfRow(d, root))
                     node == Len(heap1)
                     heap2 == reconstructLoop(data, heap1, node, minValue, 1)
                 IN reconstructLoop(data,
                        [heap2 EXCEPT ![root].Children = Append(@, node)],
                        root, minValue, k + 1)
            ELSE reconstructLoop(data, heap, root, minValue, k + 1)

reconstructTree(data, heap, root, minValue) ==
    reconstructLoop(data, heap, root, minValue, 1)

\* uint64(float64(total) * removeLowest), removeLowest = RemoveLowestPct / 100
MinValue(total, pct) == (total * pct) \div 100

\* The rows of the first query: total of the root row of the snapshot.
RECURSIVE ScanTotal(_, _, _, _, _)
ScanTotal(tbl, ts, cluster, i, total) ==
    IF i > Len(tbl) THEN total
    ELSE IF tbl[i].Timestamp = ts /\ tbl[i].Id = rootElementId /\ tbl[i].Cluster = cluster
         THEN ScanTotal(tbl, ts, cluster, i + 1, tbl[i].Total)
         ELSE ScanTotal(tbl, ts, cluster, i + 1, total)

\* Whether the second query selects the row r.
Selected(r, ts, cluster, minValue) ==
    r.Timestamp = ts /\ r.Cluster = cluster /\ r.Value > minValue

\* The map the second query's scan loop fills: data[res.Id] = res
RECURSIVE ScanData(_, _, _, _, _, _)
ScanData(tbl, ts, cluster, minValue, i, data) ==
    IF i > Len(tbl) THEN data
    ELSE IF Selected(tbl[i], ts, cluster, minValue)
         THEN ScanData(tbl, ts, cluster, minValue, i + 1,
                       (tbl[i].Id :> tbl[i]) @@ data)
         ELSE ScanData(tbl, ts, cluster, minValue, i + 1, data)

\* The tree getHandler holds when it serializes: root from data[rootElementId].
ReadTree(tbl, ts, cluster, pct) ==
    LET total == ScanTotal(tbl, ts, cluster, 1, 0)
        minValue == MinValue(total, pct)
        data == ScanData(tbl, ts, cluster, minValue, 1, << >>)
        root == NodeOfRow(Lookup(data, rootElementId), 0)
    IN reconstructTree(data, <<root>>, 1, minValue)

\* The reachable part of a heap as a value: what the root owns through Children.
RECURSIVE View(_, _)
View(heap, node) ==
    [id |-> heap[node].id, Name |-> heap[node].Name, Value |-> heap[node].Value,
     Total |-> heap[node].Total,
     Children |-> [k \in 1..Len(heap[node].Children) |->
                      View(heap, heap[node].Children[k])]]

\* The JSON document of a tree: name, total, value and children; id, cluster,
\* childrenIds and parent are not exported.
RECURSIVE Encode(_, _)
Encode(heap, node) ==
    [name |-> heap[node].Name, total |-> heap[node].Total, value |-> heap[node].Value,
     children |-> [k \in 1..Len(heap[node].Children) |->
                      Encode(heap, heap[node].Children[k])]]

\* ---------------------------------------------------------------------------
\* State
\* ---------------------------------------------------------------------------
VARIABLES
    config,     \* RemoveLowestPct, ClickhouseEnabled, WriteToFile
    clock,      \* time.Now().Unix()
    unitCluster, \* the cluster of the unit: Name, Hosts
    fetch,      \* getMetrics: the loop, its counters, the fetch tasks, the slots
    names,      \* the set getMetrics merged the hosts' listings into
    metrics,    \* what getMetrics returned: the names in map-iteration order
    pc,         \* position of the cluster's unit in parseTree
    heap,       \* the unit's tree, root at address 1
    table,      \* the committed rows of the flamegraph table
    sched,      \* processData: the loop over the clusters, its counter and
                \* WaitGroup, the units of the cycle, the sleep
    tx,         \* the last call of sendToClickhouse: its fault, the statements
                \* executed in its transaction, whether it committed
    file,       \* the tree encoded to stacks_<cluster>.json
    alive,      \* the process has not exited
    req,        \* the last request of the query endpoint
    resp,       \* the status the last request was answered with, 0 for none
    rebuilt     \* the tree getHandler serialized for the last request

vars == <<config, clock, unitCluster, fetch, names, metrics, pc, heap, table, tx, file, alive, sched,
          req, resp, rebuilt>>

StatusOK == 200
StatusBadRequest == 400
StatusInternalServerError == 500
NoResponse == 0

\* RemoveLowestPct values of the configuration.
PctChoices == {0, 50}

NoRequest == [ts |-> "", cluster |-> "", fault |-> "no request"]

\* The decimal text of a request's ts, as the query compares it to timestamp.
TsValue(ts) == CASE ts = "1" -> 1 [] ts = "2" -> 2 [] OTHER -> 0

\* processData is not followed: the unit of one cluster is.
NoSched == [lpc |-> "none"]

\* No call of sendToClickhouse in this cycle yet.
NoWrite == [fault |-> "no write", executed |-> 0, committed |-> FALSE, calls |-> 0]

\* getMetrics is over: nothing of it is left but the merged set.
FetchOver == [lpc |-> "merged", idx |-> 0, counter |-> 0, wg |-> 0,
              perIteration |-> TRUE, tasks |-> << >>, responses |-> << >>]

\* The state after main's start-up with the unit past getMetrics, which merged
\* the hosts' listings into one of nameSets.
InitWith(nameSets, toggles) ==
    /\ config \in {[RemoveLowestPct |-> p, ClickhouseEnabled |-> t[1], WriteToFile |-> t[2],
                     FetchPerCluster |-> 0] :
                      p \in PctChoices, t \in toggles}
    /\ clock = 1
    /\ unitCluster = [Name |-> ClusterName, Hosts |-> << >>]
    /\ fetch = FetchOver
    /\ names \in nameSets
    /\ metrics = << >>
    /\ pc = "start"
    /\ heap = << >>
    /\ table = << >>
    /\ tx = NoWrite
    /\ sched = NoSched
    /\ file = << >>
    /\ alive = TRUE
    /\ req = NoRequest
    /\ resp = NoResponse
    /\ rebuilt = << >>

Init == InitWith(NameSets, {<<TRUE, TRUE>>})

\* ---------------------------------------------------------------------------
\* parseTree: the unit of one cluster
\* ---------------------------------------------------------------------------
\* getMetrics returns the deduplicated names in the iteration order of a map;
\* parseTree allocates the root and calls constructTree.
Build ==
    /\ alive /\ pc = "start"
    /\ \E m \in Orderings(names) :
          /\ metrics' = m
          /\ heap' = constructTree(<<RootNode(Len(m))>>, 1, m)
    /\ pc' = "built"
    /\ UNCHANGED <<config, sched, clock, unitCluster, fetch, names, table, tx, file, alive, req, resp,
                 rebuilt>>

\* if config.ClickhouseEnabled { sendToClickhouse(flameGraphTreeRoot) } for the
\* tree h, under a fault of the row store; statement k is the one that fails
\* when one does.
WriteTree(h, fault, k) ==
    /\ alive /\ pc = "built"
    /\ IF config.ClickhouseEnabled
       THEN /\ fault = "exec" => k \in 1..Len(convertToClickhouse(h, 1, clock))
            /\ fault # "exec" => k = 1
            /\ LET o == sendToClickhouse(table, h, 1, clock, fault, k)
               IN /\ table' = o.table
                  /\ alive' = o.alive
                  /\ tx' = [fault |-> o.tx.fault, executed |-> o.tx.executed,
                            committed |-> o.tx.committed, calls |-> tx.calls + 1]
                  /\ pc' = IF o.alive THEN "sent" ELSE pc
       ELSE /\ fault = "none" /\ k = 1
            /\ pc' = "sent"
            /\ UNCHANGED <<table, alive, tx>>
    /\ UNCHANGED <<config, sched, clock, unitCluster, fetch, names, metrics, heap, file, req,
                   resp, rebuilt>>

\* Variant: the tree is trimmed before it is handed to sendToClickhouse.
SendTrimmed(fault, k) ==
    WriteTree(trimNodes(heap, 1, MinValue(Len(metrics), config.RemoveLowestPct)), fault, k)

\* parseTree hands the tree to sendToClickhouse as constructTree left it.
SendStep(fault, k) == WriteTree(heap, fault, k)

\* The write when the row store has no fault.
Send == SendStep("none", 1)

\* The write under any fault of the row store.
SendFaulty ==
    /\ pc = "built"
    /\ \E fault \in WriteFaults :
          \E k \in 1..Len(convertToClickhouse(heap, 1, clock)) : SendStep(fault, k)

\* trimNodes and the file output when WriteToFile.
TrimAndWrite ==
    /\ alive /\ pc = "sent"
    /\ IF config.WriteToFile
       THEN LET h == trimNodes(heap, 1, MinValue(Len(metrics), config.RemoveLowestPct))
            IN heap' = h /\ file' = <<Encode(h, 1)>>
       ELSE UNCHANGED <<heap, file>>
    /\ pc' = "done"
    /\ UNCHANGED <<config, sched, clock, unitCluster, fetch, names, metrics, table, tx, alive, req, resp,
                 rebuilt>>

\* ---------------------------------------------------------------------------
\* getHandler
\* ---------------------------------------------------------------------------
Faults == {"none", "open", "ping", "total_query", "total_scan", "data_query",
           "data_scan", "marshal"}

\* Whether the first query has a row to scan.
HasTotalRow(tbl, ts, cluster) ==
    \E i \in 1..Len(tbl) :
        tbl[i].Timestamp = ts /\ tbl[i].Id = rootElementId /\ tbl[i].Cluster = cluster

\* Whether the second query has a row to scan.
HasDataRow(tbl, ts, cluster, pct) ==
    \E i \in 1..Len(tbl) :
        Selected(tbl[i], ts, cluster, MinValue(ScanTotal(tbl, ts, cluster, 1, 0), pct))

\* The outcome of one request: [alive, resp, rebuilt].
\* logger.Fatal exits the process before the handler writes anything;
\* rows.Next() on the nil rows of a failed first query panics, which the HTTP
\* server recovers by dropping the connection.
HandlerOutcome(tbl, pct, ts, cluster, fault) ==
    IF ts = "" \/ cluster = ""
    THEN [alive |-> FALSE, resp |-> NoResponse, rebuilt |-> << >>]
    ELSE IF fault = "open"
    THEN [alive |-> FALSE, resp |-> NoResponse, rebuilt |-> << >>]
    ELSE IF fault = "ping"
    THEN [alive |-> TRUE, resp |-> StatusInternalServerError, rebuilt |-> << >>]
    ELSE IF fault = "total_query"
    THEN [alive |-> TRUE, resp |-> NoResponse, rebuilt |-> << >>]
    ELSE IF fault \in {"total_scan", "data_query", "data_scan", "marshal"}
    THEN [alive |-> TRUE, resp |-> StatusInternalServerError, rebuilt |-> << >>]
    ELSE [alive |-> TRUE, resp |-> StatusOK,
          rebuilt |-> ReadTree(tbl, TsValue(ts), cluster, pct)]

getHandler(ts, cluster, fault) ==
    /\ alive
    /\ fault = "total_scan" => HasTotalRow(table, TsValue(ts), cluster)
    /\ fault = "data_scan" => HasDataRow(table, TsValue(ts), cluster, config.RemoveLowestPct)
    /\ LET o == HandlerOutcome(table, config.RemoveLowestPct, ts, cluster, fault)
       IN alive' = o.alive /\ resp' = o.resp /\ rebuilt' = o.rebuilt
    /\ req' = [ts |-> ts, cluster |-> cluster, fault |-> fault]
    /\ UNCHANGED <<config, sched, clock, unitCluster, fetch, names, metrics, pc, heap, table, tx, file>>

\* A well-formed query of the written snapshot, no backend fault.
Query == pc = "done" /\ getHandler("1", ClusterName, "none")

Next == Build \/ Send \/ TrimAndWrite \/ Query

Spec == Init /\ [][Next]_vars

\* ---------------------------------------------------------------------------
\* The query endpoint under any request and any backend fault
\* ---------------------------------------------------------------------------
ReqTs == {"", "1", "2"}
ReqClusters == {"", ClusterName}

Request == \E ts \in ReqTs, cl \in ReqClusters, fault \in Faults : getHandler(ts, cl, fault)

HandlerInit == InitWith({{}, ExampleNames, DeepNames}, {<<TRUE, TRUE>>})

HandlerNext == Build \/ Send \/ TrimAndWrite \/ Request

HandlerSpec == HandlerInit /\ [][HandlerNext]_vars

\* ---------------------------------------------------------------------------
\* The unit of one cluster over the cycles of processData, under the output
\* toggles main accepts and any fault of the row store
\* ---------------------------------------------------------------------------
\* main exits when neither output is enabled.
Toggles == {<<TRUE, TRUE>>, <<TRUE, FALSE>>, <<FALSE, TRUE>>}

\* The next iteration of processData starts the cluster's unit again, with a
\* later time.Now().
NextCycle ==
    /\ alive /\ pc = "done"
    /\ clock < MaxCycles
    /\ clock' = clock + 1
    /\ pc' = "start"
    /\ metrics' = << >>
    /\ heap' = << >>
    /\ tx' = NoWrite
    /\ UNCHANGED <<config, sched, unitCluster, fetch, names, table, file, alive, req, resp, rebuilt>>

UnitInit == InitWith({{}, ExampleNames, DeepNames, GappyNames}, Toggles)

UnitNext == Build \/ SendFaulty \/ TrimAndWrite \/ NextCycle

UnitSpec == UnitInit /\ [][UnitNext]_vars

\* ---------------------------------------------------------------------------
\* getMetrics and getList
\* ---------------------------------------------------------------------------
\* What the host agent of host h lists: hosts overlap in a.b.d.
HostListing(h) ==
    IF h % 2 = 1
    THEN << <<"a", ".", "b", ".", "c">>, <<"a", ".", "b", ".", "d">> >>
    ELSE << <<"a", ".", "b", ".", "d">>, <<"a", ".", "e">> >>

\* One attempt ends in a transport error, a body that is not JSON, a JSON body
\* with an element of the wrong type, the listing, a JSON object that has
\* no Metrics key, or a response of a non-2xx status whose body is a JSON
\* error object (no Metrics key): Get returns no error for it.
Outcomes == {"transport", "syntax", "type", "ok", "nokey", "non2xx"}

\* What Decode leaves in Metrics when the last element is not a string: the
\* elements before it and the zero value in its place.
TypeErrorListing(L) == [i \in 1..Len(L) |-> IF i = Len(L) THEN EmptyStr ELSE L[i]]

\* inputMetrics.Metrics after Decode(&inputMetrics) of an attempt: Decode
\* writes into the variable the earlier attempts wrote into.
Decoded(inputMetrics, L, o) ==
    CASE o = "ok" -> L
      [] o = "type" -> TypeErrorListing(L)
      [] OTHER -> inputMetrics

AttemptFailed(o) == o \in {"transport", "syntax", "type"}

\* Whether getList gives up at the retry label.
TriesExceeded(tries) == tries > MaxTries

NoTask == [pc |-> "none", host |-> 0, tries |-> 0, inputMetrics |-> << >>,
           result |-> << >>, last |-> "none"]

\* One pass of getList from the retry label: Get, Decode, and the return or
\* the jump back.
getListAttempt(t, o) ==
    LET decoded == Decoded(t.inputMetrics, HostListing(t.host), o)
    IN IF AttemptFailed(o)
       THEN IF TriesExceeded(t.tries + 1)
            THEN [t EXCEPT !.tries = @ + 1, !.inputMetrics = decoded, !.last = o,
                           !.pc = "returned", !.result = << >>]
            ELSE [t EXCEPT !.tries = @ + 1, !.inputMetrics = decoded, !.last = o]
       ELSE [t EXCEPT !.inputMetrics = decoded, !.last = o,
                      !.pc = "returned", !.result = decoded]

NumHosts == Len(unitCluster.Hosts)

\* The value a task reads from a loop variable of getMetrics: its own
\* iteration's when the build gives every iteration its own variables, else
\* the value the one shared variable holds at the time of the read.
LoopVar(p) == IF fetch.perIteration THEN p ELSE fetch.idx

FetchUnchanged ==
    UNCHANGED <<config, sched, clock, unitCluster, metrics, heap, table, tx, file, alive, req,
                resp, rebuilt>>

\* fetchesInProgress := atomic.LoadInt32(&fetchesPerCluster) and the test
LoopCheck ==
    /\ alive /\ pc = "fetch" /\ fetch.lpc = "check"
    /\ fetch' = [fetch EXCEPT !.lpc = IF fetch.counter > config.FetchPerCluster
                                      THEN "wait" ELSE "spawn"]
    /\ UNCHANGED <<names, pc>>
    /\ FetchUnchanged

\* wg.Wait() inside the loop
LoopWait ==
    /\ alive /\ pc = "fetch" /\ fetch.lpc = "wait"
    /\ fetch.wg = 0
    /\ fetch' = [fetch EXCEPT !.lpc = "spawn"]
    /\ UNCHANGED <<names, pc>>
    /\ FetchUnchanged

\* atomic.AddInt32(&fetchesPerCluster, 1); wg.Add(1); go func() {...}()
LoopSpawn ==
    /\ alive /\ pc = "fetch" /\ fetch.lpc = "spawn"
    /\ fetch' = [fetch EXCEPT !.counter = @ + 1, !.wg = @ + 1,
                              !.tasks[fetch.idx] = [NoTask EXCEPT !.pc = "new"],
                              !.lpc = "advance"]
    /\ UNCHANGED <<names, pc>>
    /\ FetchUnchanged

\* The range statement moves on to the next host, or the loop ends.
LoopAdvance ==
    /\ alive /\ pc = "fetch" /\ fetch.lpc = "advance"
    /\ fetch' = IF fetch.idx < NumHosts
                THEN [fetch EXCEPT !.idx = @ + 1, !.lpc = "check"]
                ELSE [fetch EXCEPT !.lpc = "join"]
    /\ UNCHANGED <<names, pc>>
    /\ FetchUnchanged

\* The task computes its url from ip and enters getList.
TaskStart(p) ==
    /\ alive /\ pc = "fetch" /\ fetch.tasks[p].pc = "new"
    /\ fetch' = [fetch EXCEPT !.tasks[p] =
                     [@ EXCEPT !.pc = "fetching", !.host = unitCluster.Hosts[LoopVar(p)],
                               !.tries = 1]]
    /\ UNCHANGED <<names, pc>>
    /\ FetchUnchanged

\* One attempt of the task's getList.
TaskAttempt(p) ==
    /\ alive /\ pc = "fetch" /\ fetch.tasks[p].pc = "fetching"
    /\ \E o \in Outcomes :
          fetch' = [fetch EXCEPT !.tasks[p] = getListAttempt(@, o)]
    /\ UNCHANGED <<names, pc>>
    /\ FetchUnchanged

\* responses[idx] = getList(...), then the deferred atomic.AddInt32(-1)
TaskStore(p) ==
    /\ alive /\ pc = "fetch" /\ fetch.tasks[p].pc = "returned"
    /\ fetch' = [fetch EXCEPT !.responses[LoopVar(p)] = fetch.tasks[p].result,
                              !.counter = @ - 1,
                              !.tasks[p].pc = "stored"]
    /\ UNCHANGED <<names, pc>>
    /\ FetchUnchanged

\* The deferred wg.Done()
TaskDone(p) ==
    /\ alive /\ pc = "fetch" /\ fetch.tasks[p].pc = "stored"
    /\ fetch' = [fetch EXCEPT !.wg = @ - 1, !.tasks[p].pc = "done"]
    /\ UNCHANGED <<names, pc>>
    /\ FetchUnchanged

\* The set the slots are merged into: responseUniq
Merged(responses) == UNION {Range(responses[i]) : i \in 1..Len(responses)}

\* wg.Wait() after the loop, and the merge of the slots
LoopJoin ==
    /\ alive /\ pc = "fetch" /\ fetch.lpc = "join"
    /\ fetch.wg = 0
    /\ fetch' = [fetch EXCEPT !.lpc = "merged"]
    /\ names' = Merged(fetch.responses)
    /\ pc' = "start"
    /\ FetchUnchanged

Task == \E p \in 1..NumHosts : TaskStart(p) \/ TaskAttempt(p) \/ TaskStore(p) \/ TaskDone(p)

FetchPerClusterChoices == {0, 1}

\* The unit enters getMetrics for a cluster of 1..MaxHosts hosts.
FetchInit ==
    /\ config \in {[RemoveLowestPct |-> 0, ClickhouseEnabled |-> TRUE, WriteToFile |-> TRUE,
                     FetchPerCluster |-> f] : f \in FetchPerClusterChoices}
    /\ clock = 1
    /\ unitCluster \in {[Name |-> ClusterName, Hosts |-> [i \in 1..k |-> i]] : k \in 1..MaxHosts}
    /\ fetch \in {[lpc |-> "check", idx |-> 1, counter |-> 0, wg |-> 0, perIteration |-> b,
                    tasks |-> [i \in 1..Len(unitCluster.Hosts) |-> NoTask],
                    responses |-> [i \in 1..Len(unitCluster.Hosts) |-> << >>]] :
                      b \in BOOLEAN}
    /\ names = {}
    /\ metrics = << >>
    /\ pc = "fetch"
    /\ heap = << >>
    /\ table = << >>
    /\ tx = NoWrite
    /\ sched = NoSched
    /\ file = << >>
    /\ alive = TRUE
    /\ req = NoRequest
    /\ resp = NoResponse
    /\ rebuilt = << >>

\* The unit from the call of getMetrics to the tree constructTree returns.
FetchNext ==
    \/ LoopCheck \/ LoopWait \/ LoopSpawn \/ LoopAdvance \/ LoopJoin
    \/ Task
    \/ Build

FetchSpec == FetchInit /\ [][FetchNext]_vars

\* ---------------------------------------------------------------------------
\* processData: the scheduler and the units of a cycle
\* ---------------------------------------------------------------------------
\* RerunInterval and the values time.Since(t0) takes at the join, in ticks.
IntervalTicks == 2
ElapsedChoices == {1, 3}

\* ClustersInParallel values of the configuration.
ClustersInParallelChoices == {0, 1}

\* A configuration of three clusters, next to those of 1..MaxClusters.
ThreeClusters == <<"c1", "c2", "c3">>

ClusterLists == {[i \in 1..k |-> ThreeClusters[i]] : k \in 1..MaxClusters} \cup {ThreeClusters}

NumClusters == Len(config.Clusters)

\* No goroutine was started for the cluster in this cycle.
NoUnit == [pc |-> "none", cycle |-> 0, starts |-> 0, fault |-> "none"]

\* The units whose goroutine was started and has not called wg.Done().
Running(s) == {i \in 1..Len(s.units) : s.units[i].pc \in {"running", "returned"}}

\* Variant: Wait returns while units are running.
WaitNever(s) == TRUE

\* wg.Wait() returns when the WaitGroup's count is zero.
WaitReady(s) == s.wg = 0

\* Variant: a negative duration is slept through as its magnitude.
SleepMagnitude(d) == IF d > 0 THEN d ELSE 0 - d

\* time.Sleep(d) returns at once when d is zero or negative.
SleepTicks(d) == IF d > 0 THEN d ELSE 0

SchedUnchanged ==
    UNCHANGED <<config, clock, unitCluster, fetch, names, metrics, pc, heap, table, tx, file,
                req, resp, rebuilt>>

\* runningRoutines := atomic.LoadInt32(&clusters) and the test
CycleCheck ==
    /\ alive /\ sched.lpc = "check"
    /\ sched' = [sched EXCEPT !.runningRoutines = sched.clusters,
                              !.lpc = IF sched.clusters > config.ClustersInParallel
                                      THEN "wait" ELSE "spawn"]
    /\ UNCHANGED alive /\ SchedUnchanged

\* wg.Wait() inside the loop
CycleWait ==
    /\ alive /\ sched.lpc = "wait"
    /\ WaitReady(sched)
    /\ sched' = [sched EXCEPT !.lpc = "spawn"]
    /\ UNCHANGED alive /\ SchedUnchanged

\* wg.Add(1); atomic.AddInt32(&clusters, 1); go func() {...}()
\* atStart and over record what the start met: the units running, the value
\* loaded, and whether the running count had exceeded the ceiling since the
\* last time no unit was running.
CycleSpawn ==
    /\ alive /\ sched.lpc = "spawn"
    /\ LET before == Cardinality(Running(sched))
       IN sched' = [sched EXCEPT
              !.wg = @ + 1, !.clusters = @ + 1,
              !.units[sched.idx] = [pc |-> "running", cycle |-> sched.cycle,
                                    starts |-> @.starts + 1, fault |-> "none"],
              !.atStart = [before |-> before, observed |-> sched.runningRoutines,
                           over |-> sched.over],
              !.over = @ \/ before + 1 > config.ClustersInParallel,
              !.lpc = "advance"]
    /\ UNCHANGED alive /\ SchedUnchanged

\* The range statement moves on to the next cluster, or the loop ends.
CycleAdvance ==
    /\ alive /\ sched.lpc = "advance"
    /\ sched' = IF sched.idx < NumClusters
                THEN [sched EXCEPT !.idx = @ + 1, !.lpc = "check"]
                ELSE [sched EXCEPT !.lpc = "join"]
    /\ UNCHANGED alive /\ SchedUnchanged

\* wg.Wait() after the loop; spentTime, sleepTime and the call of time.Sleep
CycleJoin ==
    /\ alive /\ sched.lpc = "join"
    /\ WaitReady(sched)
    /\ \E spentTime \in ElapsedChoices :
          sched' = [sched EXCEPT !.spent = spentTime,
                                 !.sleep = SleepTicks(config.RerunInterval - spentTime),
                                 !.waited = 0,
                                 !.lpc = "sleep"]
    /\ UNCHANGED alive /\ SchedUnchanged

\* A tick of time passes inside time.Sleep.
Sleep ==
    /\ alive /\ sched.lpc = "sleep"
    /\ sched.sleep > 0
    /\ sched' = [sched EXCEPT !.sleep = @ - 1, !.waited = @ + 1]
    /\ UNCHANGED alive /\ SchedUnchanged

\* time.Sleep returns and the next iteration begins with a new WaitGroup and
\* a new counter; the goroutines that have called wg.Done() are past.
CycleStart ==
    /\ alive /\ sched.lpc = "sleep"
    /\ sched.sleep = 0
    /\ sched.cycle < MaxCycles
    /\ sched' = [sched EXCEPT
           !.cycle = @ + 1, !.idx = 1, !.lpc = "check", !.wg = 0, !.clusters = 0,
           !.runningRoutines = 0, !.over = FALSE,
           !.units = [i \in 1..NumClusters |->
                         IF sched.units[i].pc \in {"running", "returned"}
                         THEN [sched.units[i] EXCEPT !.starts = 0]
                         ELSE NoUnit]]
    /\ UNCHANGED alive /\ SchedUnchanged

\* parseTree returns.
UnitReturn(i) ==
    /\ alive /\ sched.units[i].pc = "running"
    /\ sched' = [sched EXCEPT !.units[i].pc = "returned"]
    /\ UNCHANGED alive /\ SchedUnchanged

\* A panic in parseTree's goroutine: the deferred function recovers it and
\* parseTree returns.
UnitPanic(i) ==
    /\ alive /\ sched.units[i].pc = "running"
    /\ sched' = [sched EXCEPT !.units[i].pc = "returned", !.units[i].fault = "panic"]
    /\ UNCHANGED alive /\ SchedUnchanged

\* A panic in a goroutine getMetrics started: no function of that goroutine
\* recovers it, the program ends.
TaskPanic(i) ==
    /\ alive /\ sched.units[i].pc = "running"
    /\ sched' = [sched EXCEPT !.units[i].fault = "task panic"]
    /\ alive' = FALSE
    /\ SchedUnchanged

\* logger.Fatal in the unit's sendToClickhouse: the process exits.
UnitFatal(i) ==
    /\ alive /\ sched.units[i].pc = "running"
    /\ config.ClickhouseEnabled
    /\ sched' = [sched EXCEPT !.units[i].fault = "fatal"]
    /\ alive' = FALSE
    /\ SchedUnchanged

\* wg.Done()
UnitDone(i) ==
    /\ alive /\ sched.units[i].pc = "returned"
    /\ sched' = [sched EXCEPT !.units[i].pc = "done", !.wg = @ - 1,
                              !.over = @ /\ Running(sched) # {i}]
    /\ UNCHANGED alive /\ SchedUnchanged

\* atomic.AddInt32(&clusters, -1)
UnitRelease(i) ==
    /\ alive /\ sched.units[i].pc = "done"
    /\ sched' = [sched EXCEPT !.units[i].pc = "finished", !.clusters = @ - 1]
    /\ UNCHANGED alive /\ SchedUnchanged

Scheduler ==
    CycleCheck \/ CycleWait \/ CycleSpawn \/ CycleAdvance \/ CycleJoin \/ Sleep \/ CycleStart

UnitProgress(i) == UnitReturn(i) \/ UnitDone(i) \/ UnitRelease(i)

UnitFault(i) == UnitPanic(i) \/ TaskPanic(i) \/ UnitFatal(i)

\* main has started processData for a configuration of clusters.
SchedInit ==
    /\ config \in {[RemoveLowestPct |-> 0, ClickhouseEnabled |-> t[1], WriteToFile |-> t[2],
                     FetchPerCluster |-> 0, ClustersInParallel |-> c,
                     RerunInterval |-> IntervalTicks, Clusters |-> l] :
                      t \in Toggles, c \in ClustersInParallelChoices, l \in ClusterLists}
    /\ clock = 1
    /\ unitCluster = [Name |-> ClusterName, Hosts |-> << >>]
    /\ fetch = FetchOver
    /\ names = {}
    /\ metrics = << >>
    /\ pc = "scheduled"
    /\ heap = << >>
    /\ table = << >>
    /\ tx = NoWrite
    /\ file = << >>
    /\ alive = TRUE
    /\ req = NoRequest
    /\ resp = NoResponse
    /\ rebuilt = << >>
    /\ sched = [lpc |-> "check", idx |-> 1, runningRoutines |-> 0, clusters |-> 0, wg |-> 0,
                units |-> [i \in 1..NumClusters |-> NoUnit], cycle |-> 1,
                spent |-> 0, sleep |-> 0, waited |-> 0, over |-> FALSE,
                atStart |-> [before |-> 0, observed |-> 0, over |-> FALSE]]

SchedNext ==
    \/ Scheduler
    \/ \E i \in 1..NumClusters : UnitProgress(i) \/ UnitFault(i)

SchedSpec == SchedInit /\ [][SchedNext]_vars

\* The goroutines run: the scheduler and every unit take the steps they can.
SchedFairSpec ==
    /\ SchedSpec
    /\ WF_vars(Scheduler)
    /\ \A i \in 1..Len(ThreeClusters) : WF_vars(i <= NumClusters /\ UnitProgress(i))

\* ---------------------------------------------------------------------------
\* Vocabulary of the properties
\* ---------------------------------------------------------------------------
\* The tree constructTree built from the unit's listing, before any trimming.
BuiltTree == constructTree(<<RootNode(Len(metrics))>>, 1, metrics)

\* The floor parseTree trims with.
UnitFloor == MinValue(Len(metrics), config.RemoveLowestPct)

\* The addresses reachable from node through Children, node included.
RECURSIVE Reach(_, _)
Reach(h, node) ==
    {node} \cup UNION {Reach(h, h[node].Children[k]) : k \in 1..Len(h[node].Children)}

\* The segment names from below the root down to node, along parent.
RECURSIVE PathOf(_, _)
PathOf(h, node) ==
    IF h[node].parent = 0 THEN << >>
    ELSE Append(PathOf(h, h[node].parent), h[node].Name)

IsPrefix(p, q) == Len(p) <= Len(q) /\ SubSeq(q, 1, Len(p)) = p

\* The non-empty elements of a sequence of segments, in order.
RECURSIVE NonEmpty(_)
NonEmpty(parts) ==
    IF Len(parts) = 0 THEN << >>
    ELSE IF Head(parts) = EmptyStr THEN NonEmpty(Tail(parts))
    ELSE <<Head(parts)>> \o NonEmpty(Tail(parts))

\* The path components of a name: its segments before the last, empty ones dropped.
Components(m) == NonEmpty(SubSeq(Split(m), 1, Len(Split(m)) - 1))

NonRoot(h) == 2..Len(h)

\* C3: flattening yields exactly one row per node: as many rows as nodes, no id
\* in two rows, each row carrying its node's id and childrenIds.
C3_OneRowPerNode ==
    pc = "sent" =>
        /\ Len(table) = Len(heap)
        /\ \A i, j \in 1..Len(table) : table[i].Id = table[j].Id => i = j
        /\ \A i \in 1..Len(table) :
              \E n \in 1..Len(heap) :
                  heap[n].id = table[i].Id /\ heap[n].childrenIds = table[i].ChildrenIds

\* C4: with a zero floor, the tree read back from the written snapshot equals
\* the original untrimmed tree: ids, names, values and children, root included.
C4_RoundTrip ==
    (resp = StatusOK /\ config.RemoveLowestPct = 0) =>
        View(rebuilt, 1) = View(BuiltTree, 1)

\* C5: the tree read back from the full snapshot with floor f equals the tree
\* built from the names and trimmed with floor f.
C5_ReadTimeFilter ==
    resp = StatusOK =>
        View(rebuilt, 1) = View(trimNodes(BuiltTree, 1, UnitFloor), 1)

C7_ValueIsPrefixCount ==
    pc = "built" =>
        /\ \A n \in NonRoot(heap) :
              LET path == PathOf(heap, n)
              IN heap[n].Value = Cardinality({m \in names : IsPrefix(path, Split(m))})
        /\ heap[1].Value = Cardinality(names)
        /\ \A n \in 1..Len(heap) : heap[n].Value <= heap[n].Total
        /\ names = ExampleNames =>
              /\ heap[1].Value = 3
              /\ \E n \in NonRoot(heap) : PathOf(heap, n) = << <<"a">> >> /\ heap[n].Value = 3
              /\ \E n \in NonRoot(heap) :
                    PathOf(heap, n) = << <<"a">>, <<"b">> >> /\ heap[n].Value = 2
              /\ \E n \in NonRoot(heap) :
                    PathOf(heap, n) = << <<"a">>, <<"e">> >> /\ heap[n].Value = 1

\* C7 amended: a node's value is the number of names whose path components (the
\* non-empty segments before the last one) start with the node's path; root
\* value is the number of names, value <= total; for a.b.c, a.b.d, a.e: root 3,
\* a 3, a.b 2 and no node a.e.
C7_ValueIsComponentCount ==
    pc = "built" =>
        /\ \A n \in NonRoot(heap) :
              LET path == PathOf(heap, n)
              IN heap[n].Value = Cardinality({m \in names : IsPrefix(path, Components(m))})
        /\ heap[1].Value = Cardinality(names)
        /\ \A n \in 1..Len(heap) : heap[n].Value <= heap[n].Total
        /\ names = ExampleNames =>
              /\ heap[1].Value = 3
              /\ \E n \in NonRoot(heap) : PathOf(heap, n) = << <<"a">> >> /\ heap[n].Value = 3
              /\ \E n \in NonRoot(heap) :
                    PathOf(heap, n) = << <<"a">>, <<"b">> >> /\ heap[n].Value = 2
              /\ \A n \in NonRoot(heap) : PathOf(heap, n) # << <<"a">>, <<"e">> >>

\* The example listing was built into the root, a and a.b.
C7_Witness ==
    /\ pc = "built"
    /\ names = ExampleNames
    /\ Len(heap) = 3

\* C8 as stated: the non-root nodes are exactly the prefixes of each name's
\* segments short of the last segment, one node per prefix, each attached under
\* the node of its parent prefix (the root at depth 1).
C8_NodesArePrefixes ==
    pc = "built" =>
        /\ {PathOf(heap, n) : n \in NonRoot(heap)} =
               UNION {{SubSeq(Split(m), 1, k) : k \in 1..(Len(Split(m)) - 1)} : m \in names}
        /\ \A n1, n2 \in NonRoot(heap) : PathOf(heap, n1) = PathOf(heap, n2) => n1 = n2
        /\ \A n \in NonRoot(heap) :
              \E k \in 1..Len(heap[heap[n].parent].Children) :
                  heap[heap[n].parent].Children[k] = n

\* C8 amended: the non-root nodes are exactly the prefixes of each name's path
\* components, i.e. of the non-empty segments among those before the last
\* segment; one node per prefix, attached under the node of its parent prefix.
C8_NodesAreComponentPrefixes ==
    pc = "built" =>
        /\ {PathOf(heap, n) : n \in NonRoot(heap)} =
               UNION {{SubSeq(Components(m), 1, k) : k \in 1..Len(Components(m))} : m \in names}
        /\ \A n1, n2 \in NonRoot(heap) : PathOf(heap, n1) = PathOf(heap, n2) => n1 = n2
        /\ \A n \in NonRoot(heap) :
              \E k \in 1..Len(heap[heap[n].parent].Children) :
                  heap[heap[n].parent].Children[k] = n

\* A name with an empty segment before a non-empty one was built into a node.
C8_Witness ==
    /\ pc = "built"
    /\ \E m \in names :
          /\ \E k \in 1..(Len(Split(m)) - 1) : Split(m)[k] = EmptyStr
          /\ Components(m) # << >>
    /\ Len(heap) > 1

\* The tree up to id assignment: each node by its path, with parent path, name,
\* value and total.
Canon(h) ==
    {[path |-> PathOf(h, n),
      parent |-> IF h[n].parent = 0 THEN << >> ELSE PathOf(h, h[n].parent),
      isRoot |-> h[n].parent = 0,
      Name |-> h[n].Name, Value |-> h[n].Value, Total |-> h[n].Total] :
        n \in 1..Len(h)}

\* One fixed ordering of a set of names.
ReferenceOrder(S) == CHOOSE m \in Orderings(S) : TRUE

\* C9: every ordering of the same set of names builds the same tree up to id
\* assignment: the tree built from the ordering getMetrics returned equals, by
\* path, the tree built from the reference ordering of the same set.
C9_OrderInvariant ==
    pc = "built" =>
        LET m == ReferenceOrder(names)
        IN Canon(constructTree(<<RootNode(Len(m))>>, 1, m)) = Canon(heap)

\* A listing of several names that share and do not share components was built.
C9_Witness ==
    /\ pc = "built"
    /\ names = DeepNames
    /\ metrics[1] = <<"a", ".", "b">>

\* C1: a request with an empty ts or an empty cluster is answered with 400 and
\* the process keeps running.
C1_BadRequestAnswered ==
    (req.fault # "no request" /\ (req.ts = "" \/ req.cluster = "")) =>
        (resp = StatusBadRequest /\ alive)

\* C2: a request with ts and cluster present whose row-store step or
\* serialization fails is answered with 500 and the process keeps running.
C2_BackendFaultAnswered ==
    (req.fault \notin {"no request", "none"} /\ req.ts # "" /\ req.cluster # "") =>
        (resp = StatusInternalServerError /\ alive)

\* The number of attempts a task's getList has made.
Attempts(t) == IF AttemptFailed(t.last) THEN t.tries - 1 ELSE t.tries

\* C10: getList makes at most 3 attempts, returns the listing of the first
\* attempt that succeeds, and the empty list after 3 failed attempts; the unit
\* goes on to build the tree from what the hosts contributed.
C10_GetListResult ==
    /\ \A p \in 1..Len(fetch.tasks) :
          LET t == fetch.tasks[p]
          IN t.pc \in {"returned", "stored", "done"} =>
                /\ Attempts(t) <= 3
                /\ t.last = "ok" => t.result = HostListing(t.host)
                /\ t.last = "nokey" => t.result = << >>
                /\ AttemptFailed(t.last) => (Attempts(t) = 3 /\ t.result = << >>)
    /\ (pc = "built" /\ fetch.tasks # << >>) =>
          /\ names \subseteq UNION {Range(fetch.tasks[p].result) : p \in 1..Len(fetch.tasks)}
          /\ heap[1].Value = Cardinality(names)

\* C11: a response with a non-2xx status is never accepted as a listing: a
\* getList whose last response had a non-2xx status counted it as a failed
\* attempt, so it has returned only by giving up after 3 tries, with the empty
\* list.
C11_Non2xxRetried ==
    \A p \in 1..Len(fetch.tasks) :
        LET t == fetch.tasks[p]
        IN (t.pc \in {"returned", "stored", "done"} /\ t.last = "non2xx") =>
              (TriesExceeded(t.tries) /\ t.result = << >>)

\* The fetch tasks that are inside getList.
InFlight == {p \in 1..Len(fetch.tasks) : fetch.tasks[p].pc = "fetching"}

\* C12: during getMetrics the number of host fetches in flight at the same time
\* never exceeds the configured ceiling FetchPerCluster.
C12_InFlightBounded ==
    pc = "fetch" => Cardinality(InFlight) <= config.FetchPerCluster

\* C13: a fault of the row store during a cluster's write aborts only that
\* write: the process keeps running, so the other units and the scheduler go on.
C13_WriteFaultNotFatal ==
    tx.fault \notin {"no write", "none"} => alive

\* The rows of the table that belong to the snapshot of time ts.
RowsAt(tbl, ts) == SelectSeq(tbl, LAMBDA r : r.Timestamp = ts)

\* C14: a snapshot write is all-or-nothing and happens once per cycle: after
\* sendToClickhouse was called in a cycle, the table holds every row of that
\* cycle's snapshot if the commit succeeded and none of them otherwise, and
\* the call was the only one of the cycle.
C14_AllOrNothing ==
    tx.calls > 0 =>
        LET snapshot == InsertedRows(convertToClickhouse(BuiltTree, 1, clock))
            held == RowsAt(table, clock)
        IN /\ tx.calls = 1
           /\ held \in {<< >>, snapshot}
           /\ tx.committed <=> held = snapshot

\* In a later cycle a statement failed after others had been executed, and the
\* table holds the earlier cycle's snapshot only.
C14_Witness ==
    /\ tx.fault = "exec" /\ tx.executed >= 2
    /\ clock > 1
    /\ table # << >>
    /\ RowsAt(table, clock) = << >>

\* C15 as stated: a unit is started only with at most ClustersInParallel units
\* running; once the running count has been above the ceiling no unit is
\* started until every unit launched so far has finished; every cluster gets
\* exactly one unit per cycle.
C15_BatchAdmission ==
    sched.lpc # "none" =>
        /\ sched.atStart.before <= config.ClustersInParallel
        /\ ~(sched.atStart.over /\ sched.atStart.before > 0)
        /\ sched.lpc \in {"join", "sleep"} =>
              \A i \in 1..NumClusters : sched.units[i].starts = 1

\* C15 amended: a unit is started only with at most ClustersInParallel units
\* running; when the admission check reads a count above the ceiling, no unit
\* is started until every unit launched so far has finished; every cluster
\* gets exactly one unit per cycle.
C15_ObservedBatchAdmission ==
    sched.lpc # "none" =>
        /\ sched.atStart.before <= config.ClustersInParallel
        /\ sched.atStart.observed > config.ClustersInParallel => sched.atStart.before = 0
        /\ sched.lpc \in {"join", "sleep"} =>
              \A i \in 1..NumClusters : sched.units[i].starts = 1

\* A cycle over three clusters is complete, and its last unit was started
\* after the check had read a count above the ceiling.
C15_Witness ==
    /\ sched.lpc = "sleep"
    /\ NumClusters = 3
    /\ sched.atStart.observed > config.ClustersInParallel
    /\ \A i \in 1..NumClusters : sched.units[i].starts = 1

\* C16: a panic raised inside a cluster's unit, its host-fetch tasks included,
\* is caught at the unit boundary and never terminates the process.
C16_PanicContained ==
    sched.lpc # "none" =>
        ((\E i \in 1..NumClusters : sched.units[i].fault \in {"panic", "task panic"}) => alive)

\* The ticks the scheduler waits after a join that measured spentTime.
DueWait == IF config.RerunInterval > sched.spent THEN config.RerunInterval - sched.spent ELSE 0

\* No unit of an earlier cycle is unfinished once a cycle has started, and the
\* wait between the join and the next cycle is interval - elapsed when that is
\* positive and none otherwise.
C17_NoOverlapAndDueWait ==
    sched.lpc # "none" =>
        /\ \A i \in 1..NumClusters :
              sched.units[i].pc \in {"running", "returned"} =>
                  sched.units[i].cycle = sched.cycle
        /\ sched.lpc = "sleep" => sched.sleep + sched.waited = DueWait
        /\ (sched.cycle > 1 /\ sched.lpc # "sleep") => sched.waited = DueWait

\* C17: cycles never overlap and never stall: no unit of cycle n+1 is started
\* before every unit of cycle n has finished; the scheduler waits for
\* interval - elapsed when positive and not at all otherwise; and as long as
\* the process runs and the units terminate, each cycle is followed by the next.
C17_CyclesInOrder ==
    /\ []C17_NoOverlapAndDueWait
    /\ ([]alive) => \A n \in 1..(MaxCycles - 1) : (sched.cycle = n) ~> (sched.cycle = n + 1)

\* The second cycle has started a unit at once after a first cycle that took
\* longer than the interval.
C17_Witness ==
    /\ sched.lpc # "none"
    /\ sched.cycle = 2
    /\ sched.spent > config.RerunInterval
    /\ sched.waited = 0
    /\ \E i \in 1..NumClusters : sched.units[i].pc = "running" /\ sched.units[i].cycle = 2

\* C18: the task launched for position i fetches host i and writes its result
\* to slot i only, so after the join every slot holds its own task's result and
\* the merged set is the union of what the hosts' fetches returned.
C18_OwnSlot ==
    fetch.tasks # << >> =>
        /\ \A p \in 1..Len(fetch.tasks) :
              fetch.tasks[p].pc \in {"fetching", "returned", "stored", "done"} =>
                  fetch.tasks[p].host = unitCluster.Hosts[p]
        /\ fetch.lpc = "merged" =>
              /\ \A p \in 1..Len(fetch.tasks) : fetch.responses[p] = fetch.tasks[p].result
              /\ names = UNION {Range(fetch.tasks[p].result) : p \in 1..Len(fetch.tasks)}

\* C19: in every state of the build and trim operations, each node's
\* childrenIds is the parallel identifier list of its children: same length,
\* and the i-th entry is the id of the i-th child; also after trimNodes.
C19_ChildrenIdsParallel ==
    pc \in {"built", "sent", "done"} =>
        \A n \in 1..Len(heap) :
            /\ Len(heap[n].childrenIds) = Len(heap[n].Children)
            /\ \A k \in 1..Len(heap[n].Children) :
                  heap[n].childrenIds[k] = heap[heap[n].Children[k]].id

\* C20: with the row store enabled the snapshot written is the full tree as
\* built, before any trimming: the rows of a committed write cover every node
\* constructTree created and nothing else, the tree is untrimmed until the
\* write is over, and it stays untrimmed when file output is disabled.
C20_FullSnapshot ==
    /\ tx.committed =>
          LET built == BuiltTree
              held == RowsAt(table, clock)
          IN /\ config.ClickhouseEnabled
             /\ \A n \in 1..Len(built) :
                   \E i \in 1..Len(held) :
                       /\ held[i].Id = built[n].id
                       /\ held[i].Name = built[n].Name
                       /\ held[i].Value = built[n].Value
                       /\ held[i].ChildrenIds = built[n].childrenIds
             /\ \A i \in 1..Len(held) : \E n \in 1..Len(built) : held[i].Id = built[n].id
    /\ pc \in {"built", "sent"} => heap = BuiltTree
    /\ (pc = "done" /\ ~config.WriteToFile) => (heap = BuiltTree /\ file = << >>)
    /\ ~config.ClickhouseEnabled => (table = << >> /\ tx.calls = 0)

\* A snapshot was committed whose tree the unit then trimmed for the file.
C20_Witness ==
    /\ pc = "done"
    /\ tx.committed
    /\ config.WriteToFile
    /\ Reach(heap, 1) # Reach(BuiltTree, 1)
    /\ Len(RowsAt(table, clock)) > 1

====
